---- MODULE Spec2Model ----
(***************************************************************************)
(* Global Country Explorer (src/app.js): the browsing pipeline (search     *)
(* dispatcher, remote lookups, result set, pagination, autocomplete) and   *)
(* the feedback capture flow, as a state machine.                          *)
(*                                                                         *)
(* Text is a sequence of one-character strings, so that trim(),            *)
(* toLowerCase(), includes() and localeCompare() are computed.             *)
(***************************************************************************)
EXTENDS Integers, Sequences, FiniteSets, TLC

(* ------------------------------ bounds -------------------------------- *)

\* Most requests (fetch promises) pending at one time.
MaxInFlight == 2

\* Most feedback submissions whose POST or whose reset timer is pending.
MaxPending == 2

(* ------------------------------ text ---------------------------------- *)

Lower ==
    << "a", "b", "c", "d", "e", "f", "g", "h", "i", "j", "k", "l", "m",
       "n", "o", "p", "q", "r", "s", "t", "u", "v", "w", "x", "y", "z" >>

Upper ==
    << "A", "B", "C", "D", "E", "F", "G", "H", "I", "J", "K", "L", "M",
       "N", "O", "P", "Q", "R", "S", "T", "U", "V", "W", "X", "Y", "Z" >>

Chars == {Lower[i] : i \in 1..26} \cup {Upper[i] : i \in 1..26} \cup {" "}

MinOf(S) == CHOOSE x \in S : \A y \in S : x <= y

\* Position of a letter in the alphabet, whatever its case; 0 for a space.
LetterIndex ==
    [c \in Chars |->
        IF \E i \in 1..26 : Lower[i] = c \/ Upper[i] = c
        THEN CHOOSE i \in 1..26 : Lower[i] = c \/ Upper[i] = c
        ELSE 0]

IsUpperChar == [c \in Chars |-> \E i \in 1..26 : Upper[i] = c]

\* String.prototype.toLowerCase
ToLowerCase(s) ==
    [i \in 1..Len(s) |-> IF IsUpperChar[s[i]] THEN Lower[LetterIndex[s[i]]] ELSE s[i]]

\* String.prototype.trim: leading and trailing white space removed.
RECURSIVE TrimStart(_)
TrimStart(s) == IF s # << >> /\ Head(s) = " " THEN TrimStart(Tail(s)) ELSE s

RECURSIVE TrimEnd(_)
TrimEnd(s) ==
    IF s # << >> /\ s[Len(s)] = " " THEN TrimEnd(SubSeq(s, 1, Len(s) - 1)) ELSE s

Trim(s) == TrimEnd(TrimStart(s))

\* Lexicographic comparison of two sequences of numbers: -1, 0 or 1.
LexCompare(x, y) ==
    LET n == IF Len(x) < Len(y) THEN Len(x) ELSE Len(y)
        D == {i \in 1..n : x[i] # y[i]}
    IN  IF D # {}
        THEN (IF x[MinOf(D)] < y[MinOf(D)] THEN -1 ELSE 1)
        ELSE IF Len(x) < Len(y) THEN -1
        ELSE IF Len(x) > Len(y) THEN 1
        ELSE 0

\* String.prototype.localeCompare in the default locale, on letters and
\* spaces: the letters decide whatever their case (a space sorts before
\* every letter); between strings with the same letters, lower case sorts
\* before upper case at the first difference.
LocaleCompare(a, b) ==
    LET primary  == LexCompare([i \in 1..Len(a) |-> LetterIndex[a[i]]],
                               [i \in 1..Len(b) |-> LetterIndex[b[i]]])
        tertiary == LexCompare([i \in 1..Len(a) |-> IF IsUpperChar[a[i]] THEN 1 ELSE 0],
                               [i \in 1..Len(b) |-> IF IsUpperChar[b[i]] THEN 1 ELSE 0])
    IN  IF primary # 0 THEN primary ELSE tertiary

(* --------------------------- entities --------------------------------- *)

\* The country records of the upstream source, in the order it returns them.
World ==
    << [cca2 |-> "PE", common |-> << "P", "e", "r", "u" >>],
       [cca2 |-> "TD", common |-> << "C", "h", "a", "d" >>],
       [cca2 |-> "CD", common |-> << "D", "R", " ", "C", "o", "n", "g", "o" >>],
       [cca2 |-> "DK", common |-> << "D", "e", "n", "m", "a", "r", "k" >>],
       [cca2 |-> "CL", common |-> << "C", "h", "i", "l", "e" >>],
       [cca2 |-> "CN", common |-> << "C", "h", "i", "n", "a" >>],
       [cca2 |-> "CU", common |-> << "C", "u", "b", "a" >>],
       [cca2 |-> "FJ", common |-> << "F", "i", "j", "i" >>],
       [cca2 |-> "IR", common |-> << "I", "r", "a", "n" >>],
       [cca2 |-> "IQ", common |-> << "I", "r", "a", "q" >>],
       [cca2 |-> "LA", common |-> << "L", "a", "o", "s" >>],
       [cca2 |-> "ML", common |-> << "M", "a", "l", "i" >>],
       [cca2 |-> "OM", common |-> << "O", "m", "a", "n" >>],
       [cca2 |-> "TG", common |-> << "T", "o", "g", "o" >>],
       [cca2 |-> "NU", common |-> << "N", "i", "u", "e" >>],
       [cca2 |-> "GU", common |-> << "G", "u", "a", "m" >>],
       [cca2 |-> "BJ", common |-> << "B", "e", "n", "i", "n" >>],
       [cca2 |-> "EG", common |-> << "E", "g", "y", "p", "t" >>],
       [cca2 |-> "GA", common |-> << "G", "a", "b", "o", "n" >>],
       [cca2 |-> "GH", common |-> << "G", "h", "a", "n", "a" >>] >>

\* A country record is held by its alpha code, which identifies it: the
\* records are never changed after retrieval.
WorldCodes == [i \in 1..Len(World) |-> World[i].cca2]

Codes == {World[i].cca2 : i \in 1..Len(World)}

\* country.name.common
CommonName ==
    [c \in Codes |-> (CHOOSE r \in {World[i] : i \in 1..Len(World)} : r.cca2 = c).common]

\* The JavaScript value undefined, as an element of an array.
Undefined == "undefined"

\* A parsed JSON body: an array of country records, or an object (the
\* upstream's error answer {status, message}).
Arr(items) == [type |-> "array", items |-> items]
Obj == [type |-> "object", items |-> << >>]

\* Lengths of the entity lists the upstream answers a search with: none, one
\* full page, one more than a page, three pages.
PayloadSizes == {0, 9, 10, 19}

\* The bodies the upstream answers a search or a detail request with.
Payloads == {Arr(SubSeq(WorldCodes, 1, n)) : n \in PayloadSizes} \cup {Obj}

\* The bodies the upstream answers /all with: every country, or an error.
AllPayloads == {Arr(WorldCodes), Obj}

\* What a fetch(...).then(res => res.json()) chain delivers: a rejection
\* (the request failed, or the body is no JSON), or the parsed body.
Rejected == [ok |-> FALSE, outcome |-> "rejected", data |-> Obj]

Resolved(d) == [ok |-> TRUE, outcome |-> d.type, data |-> d]

Responses == {Rejected} \cup {Resolved(d) : d \in Payloads}

AllResponses == {Rejected} \cup {Resolved(d) : d \in AllPayloads}

\* data[0]
First(data) ==
    IF data.type = "array" /\ data.items # << >> THEN data.items[1] ELSE Undefined

(* ----------------------------- sorting -------------------------------- *)

\* a.name.common.localeCompare(b.name.common), tabulated over the records.
NameOrder == [a \in Codes, b \in Codes |-> LocaleCompare(CommonName[a], CommonName[b])]

\* (a, b) => a.name.common.localeCompare(b.name.common)
CompareCountries(a, b) == NameOrder[a, b]

\* x put after every element of the sorted list that does not sort after it.
InsertSorted(sorted, x) ==
    LET k == Cardinality({i \in 1..Len(sorted) : CompareCountries(sorted[i], x) <= 0})
    IN  SubSeq(sorted, 1, k) \o << x >> \o SubSeq(sorted, k + 1, Len(sorted))

RECURSIVE SortDefined(_)
SortDefined(s) ==
    IF s = << >> THEN << >>
    ELSE InsertSorted(SortDefined(SubSeq(s, 1, Len(s) - 1)), s[Len(s)])

\* Array.prototype.sort with the comparator above: stable, and undefined
\* elements go to the end without being compared.
SortByCommonName(items) ==
    SortDefined(SelectSeq(items, LAMBDA c : c # Undefined))
        \o SelectSeq(items, LAMBDA c : c = Undefined)

\* The arrays the program sorts: an upstream answer, [data[0]], [c], [].
SortInputs ==
    {p.items : p \in Payloads \cup AllPayloads}
        \cup {<< c >> : c \in Codes \cup {Undefined}}

\* SortByCommonName, tabulated over the arrays the program sorts.
Sorted == [items \in SortInputs |-> SortByCommonName(items)]

(* ------------------------------ state --------------------------------- *)

VARIABLES
    currentPage,         \* let currentPage
    paginatedCountries,  \* let paginatedCountries: the Result Set
    allCountries,        \* let allCountries: the Catalog
    dom,                 \* #country-list, #pagination, #countryCount, #searchPlaceholder
    loader,              \* #loader is visible
    suggestions,         \* #suggestions: its buttons, and whether it is displayed
    modal,               \* #countryModal / #modalBody
    inflight,            \* the pending fetches (the function that issued each), oldest first
    selectedRating,      \* let selectedRating
    feedbackText,        \* #feedbackText.value
    ratingText,          \* #ratingText.innerText
    stars,               \* the .star-rating spans that carry the class "active"
    successMsg,          \* #feedbackSuccessMsg is visible
    feedbackModal,       \* #feedbackModal is open
    timers,              \* pending setTimeout(..., 2000) callbacks
    posts,               \* pending POST /api/feedback requests
    alert,               \* the text of the alert() the last handler raised, or ""
    rendered,            \* the last handler ran a renderPage() call to its end
    settled,             \* what the fetch the last handler settled delivered, or "none"
    overtaken,           \* per pending fetch: a fetch issued after it has settled already
    late                 \* the fetch the last handler settled had been overtaken

browseVars ==
    << currentPage, paginatedCountries, allCountries, dom, loader, suggestions,
       modal, inflight >>

feedbackVars ==
    << selectedRating, feedbackText, ratingText, stars, successMsg, feedbackModal,
       timers, posts >>

\* What the last handler showed the user.
outVars == << alert, rendered, settled >>

\* The observer of the order in which fetches are issued and settle.
raceVars == << overtaken, late >>

vars == << browseVars, feedbackVars, outVars, raceVars >>

\* let itemsPerPage = 9
itemsPerPage == 9

(* ---------------------------- rendering ------------------------------- *)

NoControls ==
    [shown |-> FALSE, page |-> 0, totalPages |-> 0,
     prevDisabled |-> FALSE, nextDisabled |-> FALSE]

EmptyList == [message |-> FALSE, cards |-> << >>]

\* The results area as resetFilters leaves it (and as the page starts).
BlankDom ==
    [countryList |-> EmptyList, pagination |-> NoControls,
     countryCount |-> << >>, searchPlaceholder |-> TRUE]

\* Math.ceil(n / itemsPerPage)
TotalPages(n) == (n + itemsPerPage - 1) \div itemsPerPage

\* The page state the rendering functions read and write.
Cur ==
    [paginatedCountries |-> paginatedCountries, currentPage |-> currentPage,
     dom |-> dom]

\* updateCountryCount(count)
UpdateCountryCount(count, d) == [d EXCEPT !.countryCount = << count >>]

\* showNoCountriesFound()
ShowNoCountriesFound(d) ==
    UpdateCountryCount(0,
        [d EXCEPT !.countryList = [message |-> TRUE, cards |-> << >>],
                  !.pagination = NoControls])

\* displayCountries with the count taken from the page shown instead of the
\* Result Set: a fault the rendering property must notice.
DisplayCountriesSliceCount(countries, b) ==
    LET d == UpdateCountryCount(Len(countries),
                 [b.dom EXCEPT !.searchPlaceholder = FALSE,
                               !.countryList = [message |-> FALSE, cards |-> countries]])
    IN  [b |-> [b EXCEPT !.dom = d], threw |-> FALSE]

\* displayCountries(countries): the cards are appended one by one, and reading
\* a field of undefined throws (the cards before it stay).
DisplayCountries(countries, b) ==
    LET bad   == {i \in 1..Len(countries) : countries[i] = Undefined}
        shown == IF bad = {} THEN countries ELSE SubSeq(countries, 1, MinOf(bad) - 1)
        d     == UpdateCountryCount(Len(b.paginatedCountries),
                     [b.dom EXCEPT !.searchPlaceholder = FALSE,
                                   !.countryList = [message |-> FALSE, cards |-> shown]])
    IN  [b |-> [b EXCEPT !.dom = d], threw |-> bad # {}]

\* updatePaginationControls()
UpdatePaginationControls(b) ==
    IF Len(b.paginatedCountries) = 0
    THEN [b EXCEPT !.dom.pagination = NoControls]
    ELSE LET totalPages == TotalPages(Len(b.paginatedCountries))
         IN  [b EXCEPT !.dom.pagination =
                  [shown |-> TRUE, page |-> b.currentPage, totalPages |-> totalPages,
                   prevDisabled |-> b.currentPage = 1,
                   nextDisabled |-> b.currentPage = totalPages]]

\* Array.prototype.slice(start, end)
Slice(s, start, end) ==
    SubSeq(s, start + 1, IF end < Len(s) THEN end ELSE Len(s))

\* renderPage()
RenderPage(b) ==
    IF Len(b.paginatedCountries) = 0
    THEN [b |-> [b EXCEPT !.dom = ShowNoCountriesFound(b.dom)], threw |-> FALSE]
    ELSE LET start  == (b.currentPage - 1) * itemsPerPage
             end    == start + itemsPerPage
             sliced == Slice(b.paginatedCountries, start, end)
             shown  == DisplayCountries(sliced, b)
         IN  IF shown.threw THEN shown
             ELSE [b |-> UpdatePaginationControls(shown.b), threw |-> FALSE]

\* applyPagination without the sort: a fault the replace property must notice.
ApplyPaginationUnsorted(countries, b) ==
    IF countries.type # "array"
    THEN [b |-> b, threw |-> TRUE, assigned |-> FALSE]
    ELSE LET r == RenderPage([b EXCEPT !.paginatedCountries = countries.items,
                                       !.currentPage = 1])
         IN  [b |-> r.b, threw |-> r.threw, assigned |-> TRUE]

\* applyPagination(countries): countries.sort is no function unless countries
\* is an array, and then nothing is assigned.
ApplyPagination(countries, b) ==
    IF countries.type # "array"
    THEN [b |-> b, threw |-> TRUE, assigned |-> FALSE]
    ELSE LET r == RenderPage([b EXCEPT
                      !.paginatedCountries = Sorted[countries.items],
                      !.currentPage = 1])
         IN  [b |-> r.b, threw |-> r.threw, assigned |-> TRUE]

\* The page state b becomes the state.
Commit(b) ==
    /\ paginatedCountries' = b.paginatedCountries
    /\ currentPage' = b.currentPage
    /\ dom' = b.dom

(* ------------------------------ lookups -------------------------------- *)

\* What the user may have typed in #searchName, #searchCode, #searchCapital:
\* blanks alone (the empty text once trimmed), or a padded text.
TextInputs == {<< " ", " " >>, << " ", "c", "h", " " >>}

\* The values of the #searchRegion select.
RegionInputs == {<< >>, << "A", "s", "i", "a" >>}

\* The dispatcher with code tested before name: a fault the precedence
\* property must notice.
ChooseLookupCodeFirst(name, code, capital, region) ==
    IF code # << >> THEN "searchByCode"
    ELSE IF name # << >> THEN "searchByName"
    ELSE IF capital # << >> THEN "searchByCapital"
    ELSE IF region # << >> THEN "searchByRegion"
    ELSE "loadAllCountries"

\* searchCountries(), lines 334-339: the function that issues the lookup,
\* given the values read (name, code and capital trimmed, region as it is).
ChooseLookup(name, code, capital, region) ==
    IF name # << >> THEN "searchByName"
    ELSE IF code # << >> THEN "searchByCode"
    ELSE IF capital # << >> THEN "searchByCapital"
    ELSE IF region # << >> THEN "searchByRegion"
    ELSE "loadAllCountries"

\* The sequence s without its i-th element.
Remove(s, i) == SubSeq(s, 1, i - 1) \o SubSeq(s, i + 1, Len(s))

\* String.prototype.includes
Includes(hay, needle) ==
    \E i \in 0..(Len(hay) - Len(needle)) : SubSeq(hay, i + 1, i + Len(needle)) = needle

NoSuggestions == [items |-> << >>, display |-> FALSE]

NoModal == [shown |-> FALSE, country |-> Undefined]

NoAlert == ""

\* What a handler showed: the alert it raised, whether it ran renderPage()
\* to its end, and what the fetch it settled delivered ("rejected",
\* "object", "array"; "none" for a handler that is no fetch callback).
Out(a, r, s) ==
    /\ alert' = a
    /\ rendered' = r
    /\ settled' = s

\* loadAllCountries() is called by the DOMContentLoaded handler ("startup")
\* and by searchCountries().
LoadAllCallers == {"startup", "loadAllCountries"}

(* ------------------------------ actions -------------------------------- *)

\* searchCountries() aborting the fetches that are pending: a fault (or a
\* different design) the overlap property must notice.
SearchCountriesCancelling(name, code, capital, region) ==
    /\ Len(inflight) < MaxInFlight
    /\ dom' = [dom EXCEPT !.searchPlaceholder = FALSE]
    /\ loader' = TRUE
    /\ inflight' = << ChooseLookup(Trim(name), Trim(code), Trim(capital), region) >>
    /\ Out(NoAlert, FALSE, "none")
    /\ UNCHANGED << currentPage, paginatedCountries, allCountries, suggestions,
                    modal, feedbackVars >>

\* searchCountries(): one lookup is started, its kind by precedence.
SearchCountries(name, code, capital, region) ==
    /\ Len(inflight) < MaxInFlight
    /\ dom' = [dom EXCEPT !.searchPlaceholder = FALSE]
    /\ loader' = TRUE
    /\ inflight' = Append(inflight,
                       ChooseLookup(Trim(name), Trim(code), Trim(capital), region))
    /\ Out(NoAlert, FALSE, "none")
    /\ UNCHANGED << currentPage, paginatedCountries, allCountries, suggestions,
                    modal, feedbackVars >>

\* loadAllCountries() keeping the answer in the order it came: a fault the
\* Catalog property must notice.
LoadAllCountriesDoneUnsorted(i, resp) ==
    /\ i \in 1..Len(inflight)
    /\ inflight[i] \in LoadAllCallers
    /\ inflight' = Remove(inflight, i)
    /\ loader' = FALSE
    /\ allCountries' =
           IF resp.ok /\ resp.data.type = "array"
           THEN resp.data.items
           ELSE allCountries
    /\ Out(NoAlert, FALSE, resp.outcome)
    /\ UNCHANGED << currentPage, paginatedCountries, dom, suggestions, modal,
                    feedbackVars >>

\* loadAllCountries(), its fetch settled: the Catalog is the sorted answer; a
\* rejection or an answer that is no array is logged.
LoadAllCountriesDone(i, resp) ==
    /\ i \in 1..Len(inflight)
    /\ inflight[i] \in LoadAllCallers
    /\ inflight' = Remove(inflight, i)
    /\ loader' = FALSE
    /\ allCountries' =
           IF resp.ok /\ resp.data.type = "array"
           THEN Sorted[resp.data.items]
           ELSE allCountries
    /\ Out(NoAlert, FALSE, resp.outcome)
    /\ UNCHANGED << currentPage, paginatedCountries, dom, suggestions, modal,
                    feedbackVars >>

\* searchByName whose catch only hides the loader (applyPagination([]) is
\* forgotten): a fault the byName failure property must notice.
SearchByNameDoneKeeping(i, resp) ==
    LET then == ApplyPagination(resp.data, Cur)
    IN  /\ i \in 1..Len(inflight)
        /\ inflight[i] = "searchByName"
        /\ inflight' = Remove(inflight, i)
        /\ loader' = FALSE
        /\ Commit(IF resp.ok THEN then.b ELSE Cur)
        /\ Out(NoAlert, resp.ok /\ ~then.threw, resp.outcome)
        /\ UNCHANGED << allCountries, suggestions, modal, feedbackVars >>

\* searchByName, its fetch settled: applyPagination(data), and on any
\* failure applyPagination([]).
SearchByNameDone(i, resp) ==
    LET then   == ApplyPagination(resp.data, Cur)
        caught == ~resp.ok \/ then.threw
        catch  == ApplyPagination(Arr(<< >>), IF resp.ok THEN then.b ELSE Cur)
        final  == IF caught THEN catch ELSE then
    IN  /\ i \in 1..Len(inflight)
        /\ inflight[i] = "searchByName"
        /\ inflight' = Remove(inflight, i)
        /\ loader' = FALSE
        /\ Commit(final.b)
        /\ Out(NoAlert, ~final.threw, resp.outcome)
        /\ UNCHANGED << allCountries, suggestions, modal, feedbackVars >>

\* The .then / .catch pair with the catch of searchByName (an empty Result
\* Set, no alert): a fault the failure property of the other lookups must
\* notice.
LookupDoneSilent(i, resp, kind, arg, message) ==
    LET then   == ApplyPagination(arg, Cur)
        caught == ~resp.ok \/ then.threw
        final  == IF caught
                  THEN ApplyPagination(Arr(<< >>), IF resp.ok THEN then.b ELSE Cur)
                  ELSE then
    IN  /\ i \in 1..Len(inflight)
        /\ inflight[i] = kind
        /\ inflight' = Remove(inflight, i)
        /\ loader' = FALSE
        /\ Commit(final.b)
        /\ Out(NoAlert, ~final.threw, resp.outcome)
        /\ UNCHANGED << allCountries, suggestions, modal, feedbackVars >>

\* The .then / .catch pair hiding the loader only when no other fetch is
\* pending (a counted loader): a different design the overlap property must
\* notice.
LookupDoneCounting(i, resp, kind, arg, message) ==
    LET then   == ApplyPagination(arg, Cur)
        caught == ~resp.ok \/ then.threw
    IN  /\ i \in 1..Len(inflight)
        /\ inflight[i] = kind
        /\ inflight' = Remove(inflight, i)
        /\ loader' = (loader /\ Len(inflight) > 1)
        /\ Commit(IF resp.ok THEN then.b ELSE Cur)
        /\ Out(IF caught THEN message ELSE NoAlert,
               resp.ok /\ then.assigned /\ ~then.threw, resp.outcome)
        /\ UNCHANGED << allCountries, suggestions, modal, feedbackVars >>

\* The .then / .catch pair shared by searchByCode, searchByCapital and
\* searchByRegion: applyPagination(arg), and on any failure alert(message).
LookupDone(i, resp, kind, arg, message) ==
    LET then   == ApplyPagination(arg, Cur)
        caught == ~resp.ok \/ then.threw
    IN  /\ i \in 1..Len(inflight)
        /\ inflight[i] = kind
        /\ inflight' = Remove(inflight, i)
        /\ loader' = FALSE
        /\ Commit(IF resp.ok THEN then.b ELSE Cur)
        /\ Out(IF caught THEN message ELSE NoAlert,
               resp.ok /\ then.assigned /\ ~then.threw, resp.outcome)
        /\ UNCHANGED << allCountries, suggestions, modal, feedbackVars >>

\* searchByCode, its fetch settled: applyPagination([data[0]]).
SearchByCodeDone(i, resp) ==
    LookupDone(i, resp, "searchByCode", Arr(<< First(resp.data) >>),
               "Invalid country code!")

\* searchByCapital, its fetch settled: applyPagination(data).
SearchByCapitalDone(i, resp) ==
    LookupDone(i, resp, "searchByCapital", resp.data, "No country with that capital!")

\* searchByRegion, its fetch settled: applyPagination(data).
SearchByRegionDone(i, resp) ==
    LookupDone(i, resp, "searchByRegion", resp.data, "Region not found!")

\* showCountryDetails(code), from a click on the k-th displayed card.
ShowCountryDetails(k) ==
    /\ Len(inflight) < MaxInFlight
    /\ k \in 1..Len(dom.countryList.cards)
    /\ loader' = TRUE
    /\ inflight' = Append(inflight, "showCountryDetails")
    /\ Out(NoAlert, FALSE, "none")
    /\ UNCHANGED << currentPage, paginatedCountries, allCountries, dom, suggestions,
                    modal, feedbackVars >>

\* showCountryDetails, its fetch settled, with a catch that leaves the loader
\* on: a fault the busy-indicator property must notice.
ShowCountryDetailsDoneBusy(i, resp) ==
    /\ i \in 1..Len(inflight)
    /\ inflight[i] = "showCountryDetails"
    /\ inflight' = Remove(inflight, i)
    /\ loader' = (~resp.ok \/ First(resp.data) = Undefined)
    /\ modal' =
           IF resp.ok /\ First(resp.data) # Undefined
           THEN [shown |-> TRUE, country |-> First(resp.data)]
           ELSE modal
    /\ Out(NoAlert, FALSE, resp.outcome)
    /\ UNCHANGED << currentPage, paginatedCountries, allCountries, dom, suggestions,
                    feedbackVars >>

\* showCountryDetails, its fetch settled: the modal shows data[0]; reading a
\* field of undefined throws, which is logged.
ShowCountryDetailsDone(i, resp) ==
    /\ i \in 1..Len(inflight)
    /\ inflight[i] = "showCountryDetails"
    /\ inflight' = Remove(inflight, i)
    /\ loader' = FALSE
    /\ modal' =
           IF resp.ok /\ First(resp.data) # Undefined
           THEN [shown |-> TRUE, country |-> First(resp.data)]
           ELSE modal
    /\ Out(NoAlert, FALSE, resp.outcome)
    /\ UNCHANGED << currentPage, paginatedCountries, allCountries, dom, suggestions,
                    feedbackVars >>

\* prevPage() without its bound: a fault the navigation property must notice.
PrevPageNoClamp ==
    LET r == RenderPage([Cur EXCEPT !.currentPage = currentPage - 1])
    IN  /\ Commit(r.b)
        /\ Out(NoAlert, ~r.threw, "none")
        /\ UNCHANGED << allCountries, loader, suggestions, modal, inflight,
                        feedbackVars >>

\* prevPage()
PrevPage ==
    LET r == IF currentPage > 1
             THEN RenderPage([Cur EXCEPT !.currentPage = currentPage - 1])
             ELSE [b |-> Cur, threw |-> FALSE]
    IN  /\ Commit(r.b)
        /\ Out(NoAlert, currentPage > 1 /\ ~r.threw, "none")
        /\ UNCHANGED << allCountries, loader, suggestions, modal, inflight,
                        feedbackVars >>

\* nextPage() without its bound: a fault the cursor invariant must notice.
NextPageNoClamp ==
    LET r == RenderPage([Cur EXCEPT !.currentPage = currentPage + 1])
    IN  /\ Commit(r.b)
        /\ Out(NoAlert, ~r.threw, "none")
        /\ UNCHANGED << allCountries, loader, suggestions, modal, inflight,
                        feedbackVars >>

\* nextPage()
NextPage ==
    LET totalPages == TotalPages(Len(paginatedCountries))
        r == IF currentPage < totalPages
             THEN RenderPage([Cur EXCEPT !.currentPage = currentPage + 1])
             ELSE [b |-> Cur, threw |-> FALSE]
    IN  /\ Commit(r.b)
        /\ Out(NoAlert, currentPage < totalPages /\ ~r.threw, "none")
        /\ UNCHANGED << allCountries, loader, suggestions, modal, inflight,
                        feedbackVars >>

\* resetFilters() with the call of line 361 restored, applyPagination(
\* allCountries), before the list is blanked: a fault the ownership
\* property must notice.
ResetFiltersReloading ==
    /\ suggestions' = NoSuggestions
    /\ paginatedCountries' = SortByCommonName(allCountries)
    /\ currentPage' = 1
    /\ dom' = BlankDom
    /\ Out(NoAlert, FALSE, "none")
    /\ UNCHANGED << allCountries, loader, modal, inflight, feedbackVars >>

\* resetFilters()
ResetFilters ==
    /\ suggestions' = NoSuggestions
    /\ dom' = BlankDom
    /\ Out(NoAlert, FALSE, "none")
    /\ UNCHANGED << currentPage, paginatedCountries, allCountries, loader, modal,
                    inflight, feedbackVars >>

\* What the user may have typed in #searchName when showSuggestions runs.
SuggestInputs == {<< >>, << " " >>, << "c", "h" >>, << "A" >>}

\* The filter of showSuggestions matching at the start of the name only: a
\* fault the suggestion property must notice.
MatchesPrefix(input) ==
    Slice(SelectSeq(allCountries,
                    LAMBDA c : /\ Len(CommonName[c]) >= Len(input)
                               /\ SubSeq(ToLowerCase(CommonName[c]), 1, Len(input))
                                      = ToLowerCase(input)),
          0, 5)

\* showSuggestions(input), lines 391-393
Matches(input) ==
    Slice(SelectSeq(allCountries,
                    LAMBDA c : Includes(ToLowerCase(CommonName[c]), ToLowerCase(input))),
          0, 5)

\* showSuggestions(input)
ShowSuggestions(input) ==
    /\ suggestions' =
           IF input = << >> THEN NoSuggestions
           ELSE LET matches == Matches(input)
                IN  [items |-> matches, display |-> matches # << >>]
    /\ Out(NoAlert, FALSE, "none")
    /\ UNCHANGED << currentPage, paginatedCountries, allCountries, dom, loader, modal,
                    inflight, feedbackVars >>

\* The blur listener of #searchName, its setTimeout callback 200 ms later:
\* the panel is hidden and keeps its buttons. The listener itself only
\* starts the timer, and the user may leave the field at any time, so the
\* callback may run in any state.
SearchNameBlurTimer ==
    /\ suggestions' = [suggestions EXCEPT !.display = FALSE]
    /\ Out(NoAlert, FALSE, "none")
    /\ UNCHANGED << currentPage, paginatedCountries, allCountries, dom, loader, modal,
                    inflight, feedbackVars >>

\* The mousedown handler leaving the panel as it is: a fault the selection
\* property must notice.
SelectSuggestionKeepingPanel(k) ==
    LET r == ApplyPagination(Arr(<< suggestions.items[k] >>), Cur)
    IN  /\ suggestions.display
        /\ k \in 1..Len(suggestions.items)
        /\ suggestions' = suggestions
        /\ Commit(r.b)
        /\ Out(NoAlert, ~r.threw, "none")
        /\ UNCHANGED << allCountries, loader, modal, inflight, feedbackVars >>

\* The mousedown handler of the k-th suggestion button.
SelectSuggestion(k) ==
    LET r == ApplyPagination(Arr(<< suggestions.items[k] >>), Cur)
    IN  /\ suggestions.display
        /\ k \in 1..Len(suggestions.items)
        /\ suggestions' = NoSuggestions
        /\ Commit(r.b)
        /\ Out(NoAlert, ~r.threw, "none")
        /\ UNCHANGED << allCountries, loader, modal, inflight, feedbackVars >>

(* ------------------------------ feedback ------------------------------- *)

\* The arguments setRating is called with: the five stars, and the values
\* next to them.
RatingInputs == {0, 1, 2, 5, 6}

\* What the user may have typed in #feedbackText.
CommentInputs == {<< >>, << " ", " " >>, << " ", "o", "k", " " >>}

\* The feedback modal is opened (by the page, outside app.js).
OpenFeedbackModal ==
    /\ ~feedbackModal
    /\ feedbackModal' = TRUE
    /\ Out(NoAlert, FALSE, "none")
    /\ UNCHANGED << browseVars, selectedRating, feedbackText, ratingText, stars,
                    successMsg, timers, posts >>

\* The user edits #feedbackText.
TypeFeedback(text) ==
    /\ feedbackModal
    /\ feedbackText' = text
    /\ Out(NoAlert, FALSE, "none")
    /\ UNCHANGED << browseVars, selectedRating, ratingText, stars, successMsg,
                    feedbackModal, timers, posts >>

\* setRating(rating)
SetRating(rating) ==
    /\ feedbackModal
    /\ selectedRating' = rating
    /\ stars' = {k \in 1..5 : k - 1 < rating}
    /\ ratingText' = << rating, IF rating > 1 THEN "stars" ELSE "star" >>
    /\ Out(NoAlert, FALSE, "none")
    /\ UNCHANGED << browseVars, feedbackText, successMsg, feedbackModal, timers,
                    posts >>

\* submitFeedback() with the comment validated before the rating: a fault
\* the validation property must notice.
SubmitFeedbackCommentFirst ==
    LET feedback == Trim(feedbackText)
    IN  /\ feedbackModal
        /\ IF feedback = << >>
           THEN /\ Out("Please enter your feedback or query.", FALSE, "none")
                /\ UNCHANGED << successMsg, timers, posts >>
           ELSE IF selectedRating = 0
           THEN /\ Out("Please select a star rating.", FALSE, "none")
                /\ UNCHANGED << successMsg, timers, posts >>
           ELSE /\ timers < MaxPending
                /\ Len(posts) < MaxPending
                /\ posts' = Append(posts, [rating |-> selectedRating,
                                           comment |-> feedback])
                /\ successMsg' = TRUE
                /\ timers' = timers + 1
                /\ Out(NoAlert, FALSE, "none")
        /\ UNCHANGED << browseVars, selectedRating, feedbackText, ratingText, stars,
                        feedbackModal >>

\* submitFeedback() sending the comment as typed, untrimmed: a fault the
\* submission property must notice.
SubmitFeedbackUntrimmed ==
    LET feedback == Trim(feedbackText)
    IN  /\ feedbackModal
        /\ IF selectedRating = 0
           THEN /\ Out("Please select a star rating.", FALSE, "none")
                /\ UNCHANGED << successMsg, timers, posts >>
           ELSE IF feedback = << >>
           THEN /\ Out("Please enter your feedback or query.", FALSE, "none")
                /\ UNCHANGED << successMsg, timers, posts >>
           ELSE /\ timers < MaxPending
                /\ Len(posts) < MaxPending
                /\ posts' = Append(posts, [rating |-> selectedRating,
                                           comment |-> feedbackText])
                /\ successMsg' = TRUE
                /\ timers' = timers + 1
                /\ Out(NoAlert, FALSE, "none")
        /\ UNCHANGED << browseVars, selectedRating, feedbackText, ratingText, stars,
                        feedbackModal >>

\* submitFeedback(): the two validations, then the POST, the success
\* message and the 2-second timer.
SubmitFeedback ==
    LET feedback == Trim(feedbackText)
    IN  /\ feedbackModal
        /\ IF selectedRating = 0
           THEN /\ Out("Please select a star rating.", FALSE, "none")
                /\ UNCHANGED << successMsg, timers, posts >>
           ELSE IF feedback = << >>
           THEN /\ Out("Please enter your feedback or query.", FALSE, "none")
                /\ UNCHANGED << successMsg, timers, posts >>
           ELSE /\ timers < MaxPending
                /\ Len(posts) < MaxPending
                /\ posts' = Append(posts, [rating |-> selectedRating,
                                           comment |-> feedback])
                /\ successMsg' = TRUE
                /\ timers' = timers + 1
                /\ Out(NoAlert, FALSE, "none")
        /\ UNCHANGED << browseVars, selectedRating, feedbackText, ratingText, stars,
                        feedbackModal >>

\* The POST settled: answered by the server ("saved", or its error message,
\* both JSON), or rejected. Either way it is only logged.
FeedbackPostDone(i, outcome) ==
    /\ i \in 1..Len(posts)
    /\ posts' = Remove(posts, i)
    /\ Out(NoAlert, FALSE, outcome)
    /\ UNCHANGED << browseVars, selectedRating, feedbackText, ratingText, stars,
                    successMsg, feedbackModal, timers >>

\* The setTimeout callback of submitFeedback, 2000 ms later.
FeedbackTimer ==
    /\ timers > 0
    /\ timers' = timers - 1
    /\ selectedRating' = 0
    /\ feedbackText' = << >>
    /\ ratingText' = << >>
    /\ stars' = {}
    /\ successMsg' = FALSE
    /\ feedbackModal' = FALSE
    /\ Out(NoAlert, FALSE, "none")
    /\ UNCHANGED << browseVars, posts >>

(* --------------------------- specification ----------------------------- *)

\* The page after DOMContentLoaded: loadAllCountries() has been called.
Init ==
    /\ currentPage = 1
    /\ paginatedCountries = << >>
    /\ allCountries = << >>
    /\ dom = BlankDom
    /\ loader = TRUE
    /\ suggestions = NoSuggestions
    /\ modal = NoModal
    /\ inflight = << "startup" >>
    /\ selectedRating = 0
    /\ feedbackText = << >>
    /\ ratingText = << >>
    /\ stars = {}
    /\ successMsg = FALSE
    /\ feedbackModal = FALSE
    /\ timers = 0
    /\ posts = << >>
    /\ alert = NoAlert
    /\ rendered = FALSE
    /\ settled = "none"
    /\ overtaken = << FALSE >>
    /\ late = FALSE

\* The order of the fetches is not observed.
Untracked == UNCHANGED raceVars

\* The search dispatcher, the lookups, the Result Set and its pages, and the
\* suggestions that feed the Result Set.
Next ==
    \/ /\ \E name \in TextInputs, code \in TextInputs, capital \in TextInputs,
             region \in RegionInputs : SearchCountries(name, code, capital, region)
       /\ Untracked
    \/ /\ \E i \in 1..MaxInFlight, resp \in AllResponses : LoadAllCountriesDone(i, resp)
       /\ Untracked
    \/ /\ \E i \in 1..MaxInFlight, resp \in Responses : SearchByNameDone(i, resp)
       /\ Untracked
    \/ /\ \E i \in 1..MaxInFlight, resp \in Responses : SearchByCodeDone(i, resp)
       /\ Untracked
    \/ /\ \E i \in 1..MaxInFlight, resp \in Responses : SearchByCapitalDone(i, resp)
       /\ Untracked
    \/ /\ \E i \in 1..MaxInFlight, resp \in Responses : SearchByRegionDone(i, resp)
       /\ Untracked
    \/ /\ PrevPage
       /\ Untracked
    \/ /\ NextPage
       /\ Untracked
    \/ /\ ResetFilters
       /\ Untracked
    \/ /\ \E input \in SuggestInputs : ShowSuggestions(input)
       /\ Untracked
    \/ /\ SearchNameBlurTimer
       /\ Untracked
    \/ /\ \E k \in 1..5 : SelectSuggestion(k)
       /\ Untracked

Spec == Init /\ [][Next]_vars

\* The feedback capture flow.
FeedbackNext ==
    \/ /\ OpenFeedbackModal
       /\ Untracked
    \/ /\ \E text \in CommentInputs : TypeFeedback(text)
       /\ Untracked
    \/ /\ \E rating \in RatingInputs : SetRating(rating)
       /\ Untracked
    \/ /\ SubmitFeedback
       /\ Untracked
    \/ /\ \E i \in 1..MaxPending, outcome \in {"saved", "rejected"} :
              FeedbackPostDone(i, outcome)
       /\ Untracked
    \/ /\ FeedbackTimer
       /\ Untracked

FeedbackSpec == Init /\ [][FeedbackNext]_vars

\* The feedback flow with its timers running: the event loop runs every
\* setTimeout callback once its delay has passed.
FeedbackLiveSpec == FeedbackSpec /\ WF_vars(FeedbackTimer /\ Untracked)

\* A fetch is issued: nothing issued after it has settled yet.
TrackIssue ==
    /\ overtaken' = Append(overtaken, FALSE)
    /\ late' = FALSE

\* The i-th pending fetch settles: it overtakes the ones issued before it.
TrackSettle(i) ==
    /\ overtaken' = Remove([j \in 1..Len(overtaken) |-> j < i \/ overtaken[j]], i)
    /\ late' = overtaken[i]

\* A handler that neither issues nor settles a fetch.
TrackLocal ==
    /\ overtaken' = overtaken
    /\ late' = FALSE

\* The dispatcher, the lookups and the suggestions, with the order in which
\* the fetches are issued and settle observed.
RaceNext ==
    \/ /\ \E name \in TextInputs, code \in TextInputs, capital \in TextInputs,
             region \in RegionInputs : SearchCountries(name, code, capital, region)
       /\ TrackIssue
    \/ \E i \in 1..MaxInFlight, resp \in AllResponses :
           LoadAllCountriesDone(i, resp) /\ TrackSettle(i)
    \/ \E i \in 1..MaxInFlight, resp \in Responses :
           SearchByNameDone(i, resp) /\ TrackSettle(i)
    \/ \E i \in 1..MaxInFlight, resp \in Responses :
           SearchByCodeDone(i, resp) /\ TrackSettle(i)
    \/ \E i \in 1..MaxInFlight, resp \in Responses :
           SearchByCapitalDone(i, resp) /\ TrackSettle(i)
    \/ \E i \in 1..MaxInFlight, resp \in Responses :
           SearchByRegionDone(i, resp) /\ TrackSettle(i)
    \/ /\ \E input \in SuggestInputs : ShowSuggestions(input)
       /\ TrackLocal
    \/ /\ SearchNameBlurTimer
       /\ TrackLocal
    \/ /\ \E k \in 1..5 : SelectSuggestion(k)
       /\ TrackLocal

RaceSpec == Init /\ [][RaceNext]_vars

\* Every function that calls the upstream service: the dispatcher and its
\* lookups, the pages of the results, and the details of a displayed card.
GatewayNext ==
    \/ /\ \E name \in TextInputs, code \in TextInputs, capital \in TextInputs,
             region \in RegionInputs : SearchCountries(name, code, capital, region)
       /\ Untracked
    \/ /\ \E i \in 1..MaxInFlight, resp \in AllResponses : LoadAllCountriesDone(i, resp)
       /\ Untracked
    \/ /\ \E i \in 1..MaxInFlight, resp \in Responses : SearchByNameDone(i, resp)
       /\ Untracked
    \/ /\ \E i \in 1..MaxInFlight, resp \in Responses : SearchByCodeDone(i, resp)
       /\ Untracked
    \/ /\ \E i \in 1..MaxInFlight, resp \in Responses : SearchByCapitalDone(i, resp)
       /\ Untracked
    \/ /\ \E i \in 1..MaxInFlight, resp \in Responses : SearchByRegionDone(i, resp)
       /\ Untracked
    \/ /\ \E k \in 1..itemsPerPage : ShowCountryDetails(k)
       /\ Untracked
    \/ /\ \E i \in 1..MaxInFlight, resp \in Responses : ShowCountryDetailsDone(i, resp)
       /\ Untracked
    \/ /\ PrevPage
       /\ Untracked
    \/ /\ NextPage
       /\ Untracked

GatewaySpec == Init /\ [][GatewayNext]_vars

\* What the upstream answers with when the whole page is explored: a
\* rejection, an error object, no entity, and one entity more than a page.
PageResponses ==
    {Rejected, Resolved(Obj), Resolved(Arr(<< >>)),
     Resolved(Arr(SubSeq(WorldCodes, 1, itemsPerPage + 1)))}

\* The whole page: every handler of app.js, those of the results and those
\* of the feedback modal side by side, with one fetch, one POST and one
\* reset timer pending at a time, and one valid value of every input next to
\* the empty one.
PageNext ==
    \/ /\ inflight = << >>
       /\ \E name \in TextInputs, code \in TextInputs, capital \in TextInputs,
             region \in RegionInputs : SearchCountries(name, code, capital, region)
       /\ Untracked
    \/ /\ \E resp \in AllResponses : LoadAllCountriesDone(1, resp)
       /\ Untracked
    \/ /\ \E resp \in PageResponses : SearchByNameDone(1, resp)
       /\ Untracked
    \/ /\ \E resp \in PageResponses : SearchByCodeDone(1, resp)
       /\ Untracked
    \/ /\ \E resp \in PageResponses : SearchByCapitalDone(1, resp)
       /\ Untracked
    \/ /\ \E resp \in PageResponses : SearchByRegionDone(1, resp)
       /\ Untracked
    \/ /\ inflight = << >>
       /\ \E k \in 1..itemsPerPage : ShowCountryDetails(k)
       /\ Untracked
    \/ /\ \E resp \in PageResponses : ShowCountryDetailsDone(1, resp)
       /\ Untracked
    \/ /\ PrevPage
       /\ Untracked
    \/ /\ NextPage
       /\ Untracked
    \/ /\ ResetFilters
       /\ Untracked
    \/ /\ \E input \in {<< >>, << "c", "h" >>} : ShowSuggestions(input)
       /\ Untracked
    \/ /\ SearchNameBlurTimer
       /\ Untracked
    \/ /\ \E k \in 1..5 : SelectSuggestion(k)
       /\ Untracked
    \/ /\ OpenFeedbackModal
       /\ Untracked
    \/ /\ \E text \in {<< >>, << " ", "o", "k", " " >>} : TypeFeedback(text)
       /\ Untracked
    \/ /\ \E rating \in {0, 2} : SetRating(rating)
       /\ Untracked
    \/ /\ timers = 0
       /\ posts = << >>
       /\ SubmitFeedback
       /\ Untracked
    \/ /\ \E outcome \in {"saved", "rejected"} : FeedbackPostDone(1, outcome)
       /\ Untracked
    \/ /\ FeedbackTimer
       /\ Untracked

PageSpec == Init /\ [][PageNext]_vars

(* ------------------------------ properties ----------------------------- *)

\* The least k with k * d >= n: ceil(n / d).
CeilDiv(n, d) == CHOOSE k \in 0..n : k * d >= n /\ (k - 1) * d < n

MaxOf2(a, b) == IF a >= b THEN a ELSE b

\* s is ordered by common name (undefined elements last).
IsSortedByName(s) ==
    \A i \in 1..(Len(s) - 1) :
        \/ s[i + 1] = Undefined
        \/ s[i] # Undefined /\ NameOrder[s[i], s[i + 1]] <= 0

\* s and t hold the same elements, each as many times.
SameElements(s, t) ==
    /\ Len(s) = Len(t)
    /\ \A c \in {s[i] : i \in 1..Len(s)} \cup {t[i] : i \in 1..Len(t)} :
           Cardinality({i \in 1..Len(s) : s[i] = c})
               = Cardinality({i \in 1..Len(t) : t[i] = c})

\* The step replaced the Result Set by the given entities.
ReplacedBy(entities) ==
    /\ SameElements(paginatedCountries', entities)
    /\ IsSortedByName(paginatedCountries')
    /\ currentPage' = 1

\* The step is the callback of a fetch that settled.
Settles == settled' # "none"

\* The step started a fetch.
Issues == Len(inflight') > Len(inflight)

\* The response carries an entity list.
IsList(resp) == resp.ok /\ resp.data.type = "array"

\* The "no results" view: the message, no controls, a count of 0.
NoResultsView(d) ==
    /\ d.countryList = [message |-> TRUE, cards |-> << >>]
    /\ ~d.pagination.shown
    /\ d.countryCount = << 0 >>

\* C1: in every reachable state 1 <= currentPage <= max(1, ceil(|Result
\* Set| / pageSize)).
C1_PageInRange ==
    /\ currentPage >= 1
    /\ currentPage <= MaxOf2(1, CeilDiv(Len(paginatedCountries), itemsPerPage))

\* The cursor at its upper bound, on the last of three pages.
C1_Witness ==
    /\ Len(paginatedCountries) = 2 * itemsPerPage + 1
    /\ currentPage = 3
    /\ rendered

\* C2: immediately after every replace(entities), whatever triggered it, the
\* Result Set holds exactly the given entities ordered by common name and
\* currentPage is 1.
C2_ReplaceSortsAndResets ==
    [][/\ Settles =>
              \A i \in 1..Len(inflight), resp \in Responses :
                  /\ SearchByNameDone(i, resp)
                         => ReplacedBy(IF IsList(resp) THEN resp.data.items ELSE << >>)
                  /\ SearchByCodeDone(i, resp) /\ resp.ok
                         => ReplacedBy(<< First(resp.data) >>)
                  /\ (SearchByCapitalDone(i, resp) \/ SearchByRegionDone(i, resp))
                         /\ IsList(resp)
                         => ReplacedBy(resp.data.items)
       /\ \A k \in 1..Len(suggestions.items) :
              SelectSuggestion(k) => ReplacedBy(<< suggestions.items[k] >>)]_vars

\* A three-page answer was put in order (the upstream order is another one)
\* and shown from page 1.
C2_Witness ==
    /\ settled = "array"
    /\ rendered
    /\ Len(paginatedCountries) = 2 * itemsPerPage + 1
    /\ paginatedCountries # SubSeq(WorldCodes, 1, 2 * itemsPerPage + 1)
    /\ currentPage = 1

\* Some character of the text is no white space.
NonBlank(text) == \E i \in 1..Len(text) : text[i] # " "

\* The lookup the precedence name > code > capital > region names.
ExpectedLookup(name, code, capital, region) ==
    CASE NonBlank(name) -> "searchByName"
      [] ~NonBlank(name) /\ NonBlank(code) -> "searchByCode"
      [] ~NonBlank(name) /\ ~NonBlank(code) /\ NonBlank(capital) -> "searchByCapital"
      [] ~NonBlank(name) /\ ~NonBlank(code) /\ ~NonBlank(capital) /\ region # << >>
             -> "searchByRegion"
      [] OTHER -> "loadAllCountries"

\* C3: each dispatch issues exactly one lookup, chosen by the precedence
\* name > code > capital > region over the non-empty filters (all() when all
\* are empty), and a step that settles a lookup, failed or not, issues none.
C3_OneLookupByPrecedence ==
    [][/\ Issues =>
              \A name \in TextInputs, code \in TextInputs, capital \in TextInputs,
                 region \in RegionInputs :
                  SearchCountries(name, code, capital, region)
                      => inflight' = Append(inflight,
                                            ExpectedLookup(name, code, capital, region))
       /\ Settles => Len(inflight') = Len(inflight) - 1]_vars

\* A dispatch decided by the capital filter is pending beside another lookup.
C3_Witness ==
    /\ Len(inflight) = 2
    /\ inflight[2] = "searchByCapital"
    /\ settled = "none"

\* C4: for every dispatch, the successful result of the chosen lookup
\* (byName, byCode, byCapital, byRegion, or all() when all filters are empty)
\* becomes the Result Set, with currentPage 1.
C4_ResultBecomesResultSet ==
    [][Settles => \A i \in 1..Len(inflight), resp \in Responses \cup AllResponses :
           /\ (SearchByNameDone(i, resp) \/ SearchByCapitalDone(i, resp)
                   \/ SearchByRegionDone(i, resp)) /\ IsList(resp)
                  => ReplacedBy(resp.data.items)
           /\ SearchByCodeDone(i, resp) /\ IsList(resp) /\ resp.data.items # << >>
                  => ReplacedBy(<< resp.data.items[1] >>)
           /\ LoadAllCountriesDone(i, resp) /\ inflight[i] = "loadAllCountries"
                   /\ IsList(resp)
                  => ReplacedBy(resp.data.items)]_vars

\* C5: goNext() at the last page (or on an empty Result Set) and goPrevious()
\* at page 1 change neither the cursor nor the Result Set and raise nothing;
\* anywhere else they move the cursor by exactly one page and leave the
\* Result Set alone.
C5_NavigationClamped ==
    [][/\ NextPage =>
              /\ paginatedCountries' = paginatedCountries
              /\ alert' = NoAlert
              /\ IF paginatedCountries = << >>
                    \/ currentPage = CeilDiv(Len(paginatedCountries), itemsPerPage)
                 THEN currentPage' = currentPage /\ dom' = dom
                 ELSE currentPage' = currentPage + 1 /\ rendered'
       /\ PrevPage =>
              /\ paginatedCountries' = paginatedCountries
              /\ alert' = NoAlert
              /\ IF currentPage = 1
                 THEN currentPage' = currentPage /\ dom' = dom
                 ELSE currentPage' = currentPage - 1 /\ rendered']_vars

\* The middle page of three, shown by a navigation step.
C5_Witness ==
    /\ Len(paginatedCountries) = 2 * itemsPerPage + 1
    /\ currentPage = 2
    /\ rendered
    /\ settled = "none"

\* The view render() owes the user for a Result Set and a cursor.
ViewOf(rs, page, d) ==
    IF rs = << >>
    THEN NoResultsView(d)
    ELSE LET first == (page - 1) * itemsPerPage + 1
             last  == IF page * itemsPerPage < Len(rs) THEN page * itemsPerPage
                      ELSE Len(rs)
         IN  /\ last - first + 1 \in 1..itemsPerPage
             /\ d.countryList = [message |-> FALSE,
                                 cards |-> [i \in 1..(last - first + 1) |->
                                               rs[first + i - 1]]]
             /\ d.pagination.shown
             /\ d.pagination.page = page
             /\ d.pagination.totalPages = CeilDiv(Len(rs), itemsPerPage)
             /\ d.pagination.prevDisabled <=> page = 1
             /\ d.pagination.nextDisabled <=> page = CeilDiv(Len(rs), itemsPerPage)
             /\ d.countryCount = << Len(rs) >>

\* C6: after every render() the view is the one the Result Set and the
\* cursor determine: "no results", no controls and a count of 0 for an empty
\* Result Set; else the page's slice, the controls with their disabled
\* states, and the size of the whole Result Set as the count.
C6_ViewIsFunctionOfState ==
    rendered => ViewOf(paginatedCountries, currentPage, dom)

\* Ten entities, page 2: the tenth alone, "next" disabled, a count of ten.
C6_Witness ==
    /\ rendered
    /\ Len(paginatedCountries) = itemsPerPage + 1
    /\ currentPage = 2
    /\ dom.countryList.cards = << paginatedCountries[itemsPerPage + 1] >>
    /\ dom.pagination.nextDisabled
    /\ dom.countryCount = << itemsPerPage + 1 >>

\* C7: when a byCode lookup fails upstream (the request fails, or the answer
\* is an error payload and no entity list), InvalidCode is surfaced and the
\* Result Set and currentPage are what they were before.
C7_InvalidCodeKeepsResultSet ==
    [][Settles => \A i \in 1..Len(inflight), resp \in Responses :
           SearchByCodeDone(i, resp) /\ ~IsList(resp)
               => /\ alert' = "Invalid country code!"
                  /\ paginatedCountries' = paginatedCountries
                  /\ currentPage' = currentPage]_vars

\* C8: when a byName lookup fails (rejected, or an answer that is no entity
\* list), the Result Set becomes the empty list with currentPage 1, the "no
\* results" view is rendered, and no notice is raised.
C8_NameFailureIsEmptyResult ==
    [][Settles => \A i \in 1..Len(inflight), resp \in Responses :
           SearchByNameDone(i, resp) /\ ~IsList(resp)
               => /\ paginatedCountries' = << >>
                  /\ currentPage' = 1
                  /\ rendered'
                  /\ NoResultsView(dom')
                  /\ alert' = NoAlert]_vars

\* A rejected lookup left the "no results" view and raised nothing: only
\* searchByName renders after a rejection.
C8_Witness ==
    /\ settled = "rejected"
    /\ rendered
    /\ paginatedCountries = << >>
    /\ NoResultsView(dom)
    /\ alert = NoAlert

\* C9 as stated: a rejected byRegion, byCapital or all() lookup leaves an
\* empty Result Set and the "no results" view, and raises no notice.
C9_FailureIsSilentEmptyResult ==
    [][Settles => \A i \in 1..Len(inflight), resp \in {Rejected} :
           SearchByCapitalDone(i, resp) \/ SearchByRegionDone(i, resp)
               \/ LoadAllCountriesDone(i, resp)
               => /\ paginatedCountries' = << >>
                  /\ NoResultsView(dom')
                  /\ alert' = NoAlert]_vars

\* C9, amended: a rejected byRegion or byCapital lookup raises its notice
\* ("Region not found!", "No country with that capital!"), a rejected all()
\* lookup raises none, and each leaves the Result Set, currentPage and the
\* view as they were.
C9_FailureKeepsResultSet ==
    [][Settles => \A i \in 1..Len(inflight), resp \in {Rejected} :
           /\ SearchByCapitalDone(i, resp) => alert' = "No country with that capital!"
           /\ SearchByRegionDone(i, resp) => alert' = "Region not found!"
           /\ LoadAllCountriesDone(i, resp) => alert' = NoAlert
           /\ SearchByCapitalDone(i, resp) \/ SearchByRegionDone(i, resp)
                  \/ LoadAllCountriesDone(i, resp)
                  => /\ paginatedCountries' = paginatedCountries
                     /\ currentPage' = currentPage
                     /\ dom' = dom
                     /\ ~rendered']_vars

\* A rejected byRegion lookup raised its notice over a Result Set that is
\* still on its second page.
C9_Witness ==
    /\ settled = "rejected"
    /\ alert = "Region not found!"
    /\ paginatedCountries # << >>
    /\ currentPage = 2

\* C10: a submit() that fails validation (rating 0, or a comment that is
\* empty after trimming) raises MissingRating or MissingComment (the rating
\* first), sends nothing, starts no timer, shows no acknowledgment and
\* leaves the draft as it is.
C10_InvalidSubmitChangesNothing ==
    [][SubmitFeedback /\ (selectedRating = 0 \/ ~NonBlank(feedbackText))
           => /\ alert' = IF selectedRating = 0
                          THEN "Please select a star rating."
                          ELSE "Please enter your feedback or query."
              /\ UNCHANGED << posts, timers, successMsg, selectedRating, feedbackText,
                              ratingText, stars, feedbackModal >>]_vars

\* Both validations failed, and the rating notice was raised over the
\* untouched draft.
C10_Witness ==
    /\ alert = "Please select a star rating."
    /\ selectedRating = 0
    /\ feedbackText = << " ", " " >>
    /\ posts = << >>
    /\ timers = 0
    /\ ~successMsg

\* The state the reset timer leaves: no rating, no comment, no description,
\* no active star, no acknowledgment, the capture surface closed.
FeedbackReset ==
    /\ selectedRating = 0
    /\ feedbackText = << >>
    /\ ratingText = << >>
    /\ stars = {}
    /\ ~successMsg
    /\ ~feedbackModal

\* C11: every submit() that passes validation sends exactly one (rating,
\* trimmed comment) request and shows the acknowledgment; the outcome of the
\* transmission changes neither the draft nor the acknowledgment; and the
\* pending timer eventually fires, leaving the reset state.
C11_ValidSubmitSendsOnceThenResets ==
    /\ [][/\ SubmitFeedback /\ selectedRating # 0 /\ NonBlank(feedbackText)
              => /\ posts' = Append(posts, [rating |-> selectedRating,
                                            comment |-> Trim(feedbackText)])
                 /\ successMsg'
                 /\ timers' = timers + 1
                 /\ alert' = NoAlert
                 /\ UNCHANGED << selectedRating, feedbackText, ratingText, stars >>
          /\ \A i \in 1..Len(posts), outcome \in {"saved", "rejected"} :
                 FeedbackPostDone(i, outcome)
                     => UNCHANGED << selectedRating, feedbackText, ratingText, stars,
                                     successMsg, feedbackModal, timers >>]_vars
    /\ (timers > 0 ~> FeedbackReset)

\* The transmission of a padded comment failed: the trimmed comment was
\* sent, the acknowledgment is still shown and the timer is still pending.
C11_Witness ==
    /\ settled = "rejected"
    /\ posts = << >>
    /\ successMsg
    /\ timers = 1
    /\ feedbackText = << " ", "o", "k", " " >>

\* The step is a user action that neither starts nor settles a fetch.
Local == settled' = "none" /\ ~Issues

\* The step is a user action that leaves the results area alone.
Aside == Local /\ UNCHANGED << currentPage, paginatedCountries, dom >>

\* The name holds the query at some offset, letter by letter whatever the case.
ContainsIgnoringCase(name, query) ==
    \E off \in 0..(Len(name) - Len(query)) :
        \A j \in 1..Len(query) : LetterIndex[name[off + j]] = LetterIndex[query[j]]

\* The entities whose common name contains the query, for each query.
Containing ==
    [query \in SuggestInputs |->
        {c \in Codes : ContainsIgnoringCase(CommonName[c], query)}]

\* The positions of the Catalog whose common name contains the query.
MatchingPositions(query) ==
    {i \in 1..Len(allCountries) : allCountries[i] \in Containing[query]}

\* C12: for a non-blank query, suggest(query) gives at most 5 entities, each
\* with a common name containing the query whatever the case: the first 5
\* (or fewer) matching entities of the Catalog, in Catalog order, none
\* skipped.
C12_SuggestFirstFiveMatches ==
    [][Aside => \A input \in SuggestInputs :
           NonBlank(input) /\ ShowSuggestions(input)
               => LET M == MatchingPositions(input)
                      items == suggestions'.items
                  IN  /\ Len(items) <= 5
                      /\ Len(items) = IF Cardinality(M) < 5 THEN Cardinality(M) ELSE 5
                      /\ \A k \in 1..Len(items) :
                             \E i \in M : /\ Cardinality({j \in M : j <= i}) = k
                                          /\ items[k] = allCountries[i]
                      /\ suggestions'.display <=> items # << >>]_vars

\* Five suggestions for "A" are shown, and the Catalog holds a sixth match
\* after them that was cut off.
C12_Witness ==
    /\ suggestions.display
    /\ Len(suggestions.items) = 5
    /\ \A k \in 1..5 : suggestions.items[k] \in Containing[<< "A" >>]
    /\ Cardinality(MatchingPositions(<< "A" >>)) > 5

\* C13: suggest(prefixText) with an empty or whitespace-only prefixText
\* yields no suggestions and hides the suggestion panel, whatever the
\* Catalog holds.
C13_BlankQuerySuggestsNothing ==
    [][Aside => \A input \in SuggestInputs :
           ~NonBlank(input) /\ ShowSuggestions(input)
               => /\ suggestions'.items = << >>
                  /\ ~suggestions'.display]_vars

\* C14: selecting a suggestion makes the Result Set the one suggested
\* entity, with currentPage 1 and that entity rendered, clears and hides the
\* suggestion panel, and issues no lookup.
C14_SelectionReplacesAndClears ==
    [][Local => \A k \in 1..Len(suggestions.items) :
           SelectSuggestion(k)
               => /\ paginatedCountries' = << suggestions.items[k] >>
                  /\ currentPage' = 1
                  /\ rendered'
                  /\ dom'.countryList.cards = << suggestions.items[k] >>
                  /\ suggestions'.items = << >>
                  /\ ~suggestions'.display
                  /\ inflight' = inflight]_vars

\* A suggestion was selected while a lookup was pending: one entity of the
\* Catalog is the Result Set and the panel is gone.
C14_Witness ==
    /\ settled = "none"
    /\ rendered
    /\ Len(paginatedCountries) = 1
    /\ dom.countryList.cards = paginatedCountries
    /\ suggestions = NoSuggestions
    /\ Len(inflight) = 1

\* C15: a dispatch or a suggestion selection made while a lookup is pending
\* cancels nothing: the pending lookups stay pending until they settle, one
\* at a time. Every lookup that settles with an entity list, whichever its
\* place among the pending ones and whether or not a lookup issued after it
\* has settled already, makes its own result the Result Set: the last to
\* settle wins, not the last issued.
C15_LastToSettleWins ==
    [][/\ Issues => SubSeq(inflight', 1, Len(inflight)) = inflight
       /\ Local => inflight' = inflight
       /\ Settles =>
              \A i \in 1..Len(inflight), resp \in Responses :
                  /\ (SearchByNameDone(i, resp) \/ SearchByCapitalDone(i, resp)
                          \/ SearchByRegionDone(i, resp)) /\ IsList(resp)
                         => /\ ReplacedBy(resp.data.items)
                            /\ inflight' = Remove(inflight, i)
                  /\ SearchByCodeDone(i, resp) /\ IsList(resp) /\ resp.data.items # << >>
                         => /\ ReplacedBy(<< resp.data.items[1] >>)
                            /\ inflight' = Remove(inflight, i)]_vars

\* Every lookup has settled, and the Result Set is the ten-entity answer to
\* a dispatch that was overtaken: a lookup issued after it settled before it.
C15_Witness ==
    /\ late
    /\ settled = "array"
    /\ rendered
    /\ inflight = << >>
    /\ Len(paginatedCountries) = itemsPerPage + 1

\* C16: every call of the upstream service (the lookups, all() and the
\* detail lookup) shows the loader when it is issued and hides it when it
\* settles, whatever the outcome; so the loader is off whenever no request
\* is pending, and a loader that is on has a pending request behind it.
C16_LoaderOnAtEntryOffAtCompletion ==
    /\ [][/\ Issues => loader'
          /\ Settles => ~loader'
          /\ \A k \in 1..itemsPerPage : ShowCountryDetails(k) => Issues /\ loader'
          /\ Settles =>
                 \A i \in 1..Len(inflight), resp \in Responses \cup AllResponses :
                     LoadAllCountriesDone(i, resp) \/ SearchByNameDone(i, resp)
                         \/ SearchByCodeDone(i, resp) \/ SearchByCapitalDone(i, resp)
                         \/ SearchByRegionDone(i, resp) \/ ShowCountryDetailsDone(i, resp)
                         => ~loader' /\ Len(inflight') = Len(inflight) - 1]_vars
    /\ [](inflight = << >> => ~loader)
    /\ [](loader => inflight # << >>)

\* The detail lookup of a displayed card has settled and filled the modal:
\* nothing is pending and the loader is off.
C16_Witness ==
    /\ modal.shown
    /\ settled = "array"
    /\ inflight = << >>
    /\ ~loader

\* The step settles the all() lookup the page issued when it was loaded.
StartupSettles ==
    /\ Settles
    /\ \E i \in 1..Len(inflight) :
           inflight[i] = "startup" /\ inflight' = Remove(inflight, i)

\* C17 as stated: the Catalog is sorted by common name in every state, and
\* no step but the completion of the startup all() lookup changes it.
C17_CatalogLoadedOnce ==
    /\ [](IsSortedByName(allCountries))
    /\ [][~StartupSettles => allCountries' = allCountries]_vars

\* C17, amended: the Catalog is sorted by common name in every state; it is
\* assigned by the completion of every all() lookup that answers with a list
\* (the startup one, and the one each dispatch with all filters empty
\* issues), to that list in order; a failed all() lookup, suggest(),
\* selecting a suggestion, goPrevious/goNext, resetFilters, the dispatches
\* and the completions of the other lookups leave it as it is.
C17_CatalogAssignedByAllOnly ==
    /\ [](IsSortedByName(allCountries))
    /\ [][/\ ~Settles => allCountries' = allCountries
          /\ Settles =>
                 \A i \in 1..Len(inflight), resp \in Responses \cup AllResponses :
                     /\ LoadAllCountriesDone(i, resp) /\ IsList(resp)
                            => /\ SameElements(allCountries', resp.data.items)
                               /\ IsSortedByName(allCountries')
                     /\ LoadAllCountriesDone(i, resp) /\ ~IsList(resp)
                            => allCountries' = allCountries
                     /\ SearchByNameDone(i, resp) \/ SearchByCodeDone(i, resp)
                            \/ SearchByCapitalDone(i, resp) \/ SearchByRegionDone(i, resp)
                            => allCountries' = allCountries]_vars

\* The startup lookup is still pending, and the Catalog is filled already:
\* by the all() lookup of a dispatch with all filters empty.
C17_Witness ==
    /\ inflight = << "startup" >>
    /\ settled = "array"
    /\ allCountries # << >>
    /\ IsSortedByName(allCountries)
    /\ allCountries # WorldCodes

\* C18: the feedback flow is Idle -> Rated -> Submitting -> PostSubmitDisplay
\* -> Idle. A transmission is issued only once a rating is set; while the
\* acknowledgment is displayed no transmission and no reset timer is started
\* and the rating is touched by the reset alone; a reset is the only one
\* pending, and so finds the draft that was submitted.
C18_FeedbackFlowIsSequential ==
    [][/\ Len(posts') > Len(posts) => selectedRating # 0 /\ ~successMsg
       /\ timers' > timers => timers = 0
       /\ successMsg =>
              \/ UNCHANGED << selectedRating, posts, timers >>
              \/ Len(posts') < Len(posts) /\ UNCHANGED << selectedRating, timers >>
              \/ FeedbackTimer /\ timers = 1]_vars

\* C19: in every state of the feedback flow the rating is one of 0..5 and
\* the active stars are exactly the first `rating` of the five; setRating(n)
\* with n outside 1..5 does not take the draft out of this range.
C19_RatingInRange ==
    /\ selectedRating \in 0..5
    /\ stars = 1..selectedRating

\* A request is pending behind a loader that is off.
Premature == ~loader /\ inflight # << >>

\* C20: when one of two or more pending calls settles, the loader goes off
\* although a call is still pending; and a pending call behind a loader
\* that is off arises in no other way: it is left by such a step, or it was
\* there already and the step issues nothing. With calls that never
\* overlap, the loader is on for as long as a request is pending.
C20_OverlapClearsLoaderEarly ==
    [][/\ Settles /\ Len(inflight) >= 2 => Premature'
       /\ Premature' => \/ Settles /\ Len(inflight) >= 2
                        \/ Premature /\ Local
       /\ Issues => ~Premature']_vars

\* The details of a card are being fetched behind a loader that the
\* completion of another call has switched off.
C20_Witness ==
    /\ inflight = << "showCountryDetails" >>
    /\ ~loader
    /\ settled # "none"


\* The kinds of lookup whose completion calls applyPagination().
ReplacingLookups ==
    {"searchByName", "searchByCode", "searchByCapital", "searchByRegion"}

\* The step is one that calls applyPagination(): the completion of a search
\* lookup, or the selection of a suggestion.
Replaces ==
    \/ /\ Settles
       /\ \E i \in 1..Len(inflight) :
              inflight[i] \in ReplacingLookups /\ inflight' = Remove(inflight, i)
    \/ /\ Local
       /\ suggestions.display
       /\ suggestions' = NoSuggestions

\* The step is one of the operations that own neither the Result Set nor
\* the page: resetFilters, the detail lookup and its completion,
\* showSuggestions, the blur timer of the name field, setRating,
\* submitFeedback, the feedback reset timer.
Bystander ==
    \/ ResetFilters
    \/ \E k \in 1..itemsPerPage : ShowCountryDetails(k)
    \/ \E i \in 1..Len(inflight), resp \in PageResponses : ShowCountryDetailsDone(i, resp)
    \/ \E input \in SuggestInputs : ShowSuggestions(input)
    \/ SearchNameBlurTimer
    \/ \E rating \in RatingInputs : SetRating(rating)
    \/ SubmitFeedback
    \/ FeedbackTimer

\* The step is one of the browsing operations: the dispatch, the completion
\* of a lookup, a page turn, a selection, a reset of the filters, the
\* suggestions and their hiding on blur, the detail lookup.
Browsing ==
    \/ Settles /\ Len(inflight') < Len(inflight)
    \/ Issues
    \/ PrevPage
    \/ NextPage
    \/ \E k \in 1..5 : SelectSuggestion(k)
    \/ ResetFilters
    \/ \E input \in SuggestInputs : ShowSuggestions(input)
    \/ SearchNameBlurTimer

\* C21: the Result Set changes only in a step that calls applyPagination(),
\* and currentPage only in such a step (to 1), in prevPage() and in
\* nextPage(); resetFilters, the detail lookup and its completion,
\* showSuggestions, the blur timer, setRating, submitFeedback and the reset
\* timer leave both as they are; and the browsing operations leave the rating and the
\* comment of the Feedback Draft as they are.
C21_StateChangedByItsOwnersOnly ==
    [][/\ paginatedCountries' # paginatedCountries => Replaces /\ currentPage' = 1
       /\ currentPage' # currentPage =>
              \/ Replaces /\ currentPage' = 1
              \/ PrevPage
              \/ NextPage
       /\ UNCHANGED << paginatedCountries, currentPage >> \/ ~Bystander
       /\ UNCHANGED << selectedRating, feedbackText >> \/ ~Browsing]_vars

\* A second page of results is on display, the details modal is open over a
\* results area that resetFilters has blanked, and a rated comment has been
\* submitted and awaits its reset.
C21_Witness ==
    /\ Len(paginatedCountries) = itemsPerPage + 1
    /\ currentPage = 2
    /\ modal.shown
    /\ dom = BlankDom
    /\ selectedRating = 2
    /\ successMsg
    /\ timers = 1

====
